---- MODULE Spec2Model ----
(***************************************************************************)
(* A model of chaos_monkeys_ai.py: the PlayerAi agent of a tick-based      *)
(* strategy game.  The engine calls PlayerAi.run once per tick with a      *)
(* snapshot `info`; run() is one action, Run(i), that threads the agent's  *)
(* attributes through the base loop, the target assignment, the tank loop, *)
(* the stuck detection, the ship loop and the jet loop, in source order.   *)
(*                                                                         *)
(* Positions are pairs <<x, y>> of integers.  Distances are kept squared   *)
(* (Dist2), and every threshold of the source is compared squared, which   *)
(* is the same comparison on non-negative reals.                           *)
(* An optional value is a sequence: None is <<>>, a position is <<x, y>>,  *)
(* an optional object o is <<o>>.                                          *)
(***************************************************************************)
EXTENDS Integers, Sequences, FiniteSets, TLC

VARIABLES
    previous_positions,   \* self.previous_positions : unit uid -> position
    ntanks_def,           \* self.ntanks_def : base uid -> counter
    tanks_def,            \* self.tanks_def  : base uid -> set of tank uids
    ntanks_att,           \* self.ntanks_att
    tanks_att,            \* self.tanks_att
    nships,               \* self.nships
    ships,                \* self.ships
    njets,                \* self.njets
    jets_def,             \* self.jets_def (defaultdict(set))
    bases_under_attack,   \* self.bases_under_attack : base uid -> optional position
    cycle_cache,          \* the lru_cache of cycle(): base object -> iterator position
    world,                \* the engine: units ever built, units alive, own bases alive
    info,                 \* the snapshot of the last run() call
    trace                 \* what the last run() call did: builds, commands, exception

vars == <<previous_positions, ntanks_def, tanks_def, ntanks_att, tanks_att, nships,
          ships, njets, jets_def, bases_under_attack, cycle_cache, world, info, trace>>

-----------------------------------------------------------------------------
(* Bounds of the model *)

MaxUnits == 5
MaxBases == 2
MaxObjs == 2
RotationUnits == 20
JetUnits == 10
TankUnits == 2
ShadowUnits == 17
ProgressUnits == 7

-----------------------------------------------------------------------------
(* Generic helpers *)

None == <<>>

Some(x) == <<x>>

Put(f, k, v) == [x \in (DOMAIN f) \cup {k} |-> IF x = k THEN v ELSE f[x]]

Range(seq) == {seq[i] : i \in 1..Len(seq)}

Sq(n) == n * n

Neg(v) == [i \in DOMAIN v |-> 0 - v[i]]

\* get_distance(x, y) of the engine, squared.
Dist2(p, q) == Sq(p[1] - q[1]) + Sq(p[2] - q[2])

\* min(seq, key=..., default=None) of Python: the first minimal element, as an
\* optional value.
MinBy(seq, Key(_)) ==
    IF Len(seq) = 0 THEN None
    ELSE LET best == CHOOSE i \in 1..Len(seq) :
                         /\ \A j \in 1..Len(seq) : Key(seq[i]) <= Key(seq[j])
                         /\ \A j \in 1..(i - 1) : Key(seq[j]) > Key(seq[i])
         IN  Some(seq[best])

\* team_info.get(category, [])
Get(team_info, cat) == IF team_info[cat].present THEN team_info[cat].items ELSE <<>>

\* "category" in team_info
Has(team_info, cat) == team_info[cat].present

Uids(seq) == {seq[i].uid : i \in 1..Len(seq)}

-----------------------------------------------------------------------------
(* The agent's attributes as one record, so that the steps of run() compose *)

Self ==
    [previous_positions |-> previous_positions, ntanks_def |-> ntanks_def,
     tanks_def |-> tanks_def, ntanks_att |-> ntanks_att, tanks_att |-> tanks_att,
     nships |-> nships, ships |-> ships, njets |-> njets, jets_def |-> jets_def,
     bases_under_attack |-> bases_under_attack, cycle_cache |-> cycle_cache,
     units |-> world.units, built |-> <<>>, cmds |-> <<>>, err |-> "none",
     errAt |-> "", errUid |-> 0, choices |-> <<>>,
     targets |-> [per_base |-> <<>>, per_tank |-> <<>>]]

\* An exception leaves run(): what it is, the loop it was raised in and the unit
\* that loop was at (0 outside the loops over units).
Raise(s, exc, where, uid) == [s EXCEPT !.err = exc, !.errAt = where, !.errUid = uid]

\* self.jets_def[uid] of a defaultdict(set): a missing key reads as the empty set.
JetsOf(s, uid) == IF uid \in DOMAIN s.jets_def THEN s.jets_def[uid] ELSE {}

\* A command issued to an engine object during run().
Cmd(uid, op, arg) == [uid |-> uid, op |-> op, arg |-> arg]

Issue(s, uid, op, arg) == [s EXCEPT !.cmds = Append(@, Cmd(uid, op, arg))]

-----------------------------------------------------------------------------
(* build_* : lines 39-72 *)

build_mine(s, base) ==
    IF base.crystal > base.cost["mine"]
    THEN [s EXCEPT !.built = Append(@, [base |-> base.uid, item |-> "mine",
                                        role |-> "build_mine", uid |-> 0])]
    ELSE s

NewUid(s) == Len(s.units) + 1

Engine_build(s, base, kind, role) ==
    [s EXCEPT !.units = Append(@, [kind |-> kind, owner |-> base.uid]),
              !.built = Append(@, [base |-> base.uid, item |-> kind,
                                   role |-> role, uid |-> NewUid(s)])]

\* build_tank_def with >= for > in the crystal guard of line 44.
build_tank_def_AtCost(s, base) ==
    IF base.crystal >= base.cost["tank"]
    THEN LET tank_uid == NewUid(s)
             e == Engine_build(s, base, "tank", "build_tank_def")
         IN  [e EXCEPT !.tanks_def[base.uid] = @ \cup {tank_uid},
                       !.ntanks_def[base.uid] = @ + 1]
    ELSE s

build_tank_def(s, base) ==
    IF base.crystal > base.cost["tank"]
    THEN LET tank_uid == NewUid(s)
             e == Engine_build(s, base, "tank", "build_tank_def")
         IN  [e EXCEPT !.tanks_def[base.uid] = @ \cup {tank_uid},
                       !.ntanks_def[base.uid] = @ + 1]
    ELSE s

build_tank_att(s, base) ==
    IF base.crystal > base.cost["tank"]
    THEN LET tank_uid == NewUid(s)
             e == Engine_build(s, base, "tank", "build_tank_att")
         IN  [e EXCEPT !.tanks_att[base.uid] = @ \cup {tank_uid},
                       !.ntanks_att[base.uid] = @ + 1]
    ELSE s

build_ship(s, base) ==
    IF base.crystal > base.cost["ship"]
    THEN LET ship_uid == NewUid(s)
             e == Engine_build(s, base, "ship", "build_ship")
         IN  [e EXCEPT !.nships[base.uid] = @ + 1,
                       !.ships[base.uid] = @ \cup {ship_uid}]
    ELSE s

\* The njets increment is commented out in the source (line 71).
build_jet(s, base) ==
    IF base.crystal > base.cost["jet"]
    THEN LET jet_uid == NewUid(s)
             e == Engine_build(s, base, "jet", "build_jet")
         IN  [e EXCEPT !.jets_def = Put(@, base.uid, JetsOf(s, base.uid) \cup {jet_uid})]
    ELSE s

\* action(self, base), line 281
Execute(action, s, base) ==
    CASE action = "build_mine" -> build_mine(s, base)
      [] action = "build_tank_def" -> build_tank_def(s, base)
      [] action = "build_tank_att" -> build_tank_att(s, base)
      [] action = "build_ship" -> build_ship(s, base)
      [] action = "build_jet" -> build_jet(s, base)

-----------------------------------------------------------------------------
(* stages : lines 74-92 *)

Stage(item, count, action) == [item |-> item, count |-> count, action |-> action]

\* The stages with the first "ships", 2 entry (line 80) asking for one ship only.
stages_Unshadowed ==
    << Stage("mines", 2, "build_mine"),
       Stage("tanks_def", 3, "build_tank_def"),
       Stage("ships", 1, "build_ship"),
       Stage("tanks_att", 1, "build_tank_att"),
       Stage("mines", 3, "build_mine"),
       Stage("ships", 1, "build_ship"),
       Stage("tanks_def", 6, "build_tank_def"),
       Stage("jets", 1, "build_jet"),
       Stage("ships", 2, "build_jet"),
       Stage("tanks_def", 9, "build_tank_def"),
       Stage("tanks_att", 2, "build_tank_att"),
       Stage("ships", 2, "build_ship"),
       Stage("jets", 2, "build_jet"),
       Stage("ships", 3, "build_ship"),
       Stage("tanks_def", 10, "build_tank_def"),
       Stage("jets", 1, "build_jet"),
       Stage("tanks_att", 5, "build_tank_att") >>

stages ==
    << Stage("mines", 2, "build_mine"),
       Stage("tanks_def", 3, "build_tank_def"),
       Stage("ships", 1, "build_ship"),
       Stage("tanks_att", 1, "build_tank_att"),
       Stage("mines", 3, "build_mine"),
       Stage("ships", 2, "build_ship"),
       Stage("tanks_def", 6, "build_tank_def"),
       Stage("jets", 1, "build_jet"),
       Stage("ships", 2, "build_jet"),
       Stage("tanks_def", 9, "build_tank_def"),
       Stage("tanks_att", 2, "build_tank_att"),
       Stage("ships", 2, "build_ship"),
       Stage("jets", 2, "build_jet"),
       Stage("ships", 3, "build_ship"),
       Stage("tanks_def", 10, "build_tank_def"),
       Stage("jets", 1, "build_jet"),
       Stage("tanks_att", 5, "build_tank_att") >>

-----------------------------------------------------------------------------
(* update_vehicles : lines 94-126 *)

Reconcile(sets, alive) == [b \in DOMAIN sets |-> sets[b] \cap alive]

\* update_vehicles that also brings the counters down to the sizes of the sets.
update_vehicles_SyncCounters(s, player_info) ==
    LET alive_tanks == Uids(Get(player_info, "tanks"))
        alive_ships == Uids(Get(player_info, "ships"))
        alive_jets == Uids(Get(player_info, "jets"))
    IN  [s EXCEPT !.tanks_att = Reconcile(@, alive_tanks),
                  !.tanks_def = Reconcile(@, alive_tanks),
                  !.ships = Reconcile(@, alive_ships),
                  !.jets_def = Reconcile(@, alive_jets),
                  !.nships = [b \in DOMAIN @ |->
                                 IF b \in DOMAIN s.ships
                                 THEN Cardinality(s.ships[b] \cap alive_ships) ELSE @[b]]]

update_vehicles(s, player_info) ==
    LET alive_tanks == Uids(Get(player_info, "tanks"))
        alive_ships == Uids(Get(player_info, "ships"))
        alive_jets == Uids(Get(player_info, "jets"))
    IN  [s EXCEPT !.tanks_att = Reconcile(@, alive_tanks),
                  !.tanks_def = Reconcile(@, alive_tanks),
                  !.ships = Reconcile(@, alive_ships),
                  !.jets_def = Reconcile(@, alive_jets)]

-----------------------------------------------------------------------------
(* cycle and get_next_stage : lines 128-151, 455-457 *)

Rotation == <<"build_tank_def", "build_jet", "build_tank_att", "build_ship">>

\* lru_cache keys the itertools.cycle iterator by the arguments (self, base): by the
\* base OBJECT the engine passed, whatever its uid.  The value kept is how many
\* elements the iterator has already produced, modulo the length of the rotation.
cycle(s, base) ==
    IF base.obj \in DOMAIN s.cycle_cache THEN s.cycle_cache[base.obj] ELSE 0

already_built_ships_and_not_jet(s, base, desired_count) ==
    s.nships[base.uid] >= desired_count /\ Cardinality(JetsOf(s, base.uid)) = 0

StageHit(s, base, stage) ==
    CASE stage.item = "mines" -> base.mines < stage.count
      [] stage.item = "tanks_def" -> Cardinality(s.tanks_def[base.uid]) < stage.count
      [] stage.item = "tanks_att" -> Cardinality(s.tanks_att[base.uid]) < stage.count
      [] stage.item = "ships" ->
             /\ ~already_built_ships_and_not_jet(s, base, stage.count)
             /\ Cardinality(s.ships[base.uid]) < stage.count
      [] stage.item = "jets" -> Cardinality(JetsOf(s, base.uid)) < stage.count

\* The index of the stage get_next_stage returns from, 0 for the fallback.
StageIndex(s, base) ==
    IF \E i \in 1..Len(stages) : StageHit(s, base, stages[i])
    THEN CHOOSE i \in 1..Len(stages) :
             /\ StageHit(s, base, stages[i])
             /\ \A j \in 1..(i - 1) : ~StageHit(s, base, stages[j])
    ELSE 0

\* The pair (action returned, agent afterwards): next() advances the cached iterator.
get_next_stage(s, base) ==
    LET i == StageIndex(s, base)
        pos == cycle(s, base)
    IN  IF i > 0
        THEN [action |-> stages[i].action, stage |-> i, s |-> s]
        ELSE [action |-> Rotation[pos + 1], stage |-> 0,
              s |-> [s EXCEPT !.cycle_cache =
                                  Put(@, base.obj, (pos + 1) % Len(Rotation))]]

-----------------------------------------------------------------------------
(* get_enemy_* and the lookups : lines 153-179, 459-505 *)

\* for ... in <sequence>: the loop body applied to the agent, element by element.
\* A raised exception leaves the loop: the remaining elements are not processed.
RECURSIVE ForEach(_, _, _, _)
ForEach(Body(_, _), s, seq, k) ==
    IF k > Len(seq) \/ s.err # "none" THEN s
    ELSE ForEach(Body, Body(s, seq[k]), seq, k + 1)

RECURSIVE Concat(_, _, _)
Concat(teams, cats, k) ==
    IF k > Len(teams) THEN <<>>
    ELSE LET t == teams[k]
             RECURSIVE Cats(_)
             Cats(c) == IF c > Len(cats) THEN <<>> ELSE Get(t, cats[c]) \o Cats(c + 1)
         IN  Cats(1) \o Concat(teams, cats, k + 1)

\* info.items() without the own team (team_name == self.team: continue)
get_enemy_vehicles(i) == Concat(i.enemies, <<"tanks", "ships", "jets">>, 1)

get_enemy_bases(i) == Concat(i.enemies, <<"bases">>, 1)

get_enemy_ships(i) == Concat(i.enemies, <<"ships">>, 1)

\* The bases of every team, for team_info in info.values()
AllBases(i) == Get(i.own, "bases") \o get_enemy_bases(i)

get_base_by_uid(i, uid) ==
    LET bs == AllBases(i)
    IN  IF \E k \in 1..Len(bs) : bs[k].uid = uid
        THEN Some(bs[CHOOSE k \in 1..Len(bs) :
                         bs[k].uid = uid /\ \A j \in 1..(k - 1) : bs[j].uid # uid])
        ELSE None

\* get_target_per_base choosing among the bases of every team, the own one
\* included (get_enemy_bases without the test of line 168).
get_target_per_base_AllTeams(i) ==
    LET enemy_bases == AllBases(i)
        bs == i.own.bases.items
    IN  [uid \in Uids(bs) |->
            LET base == bs[CHOOSE k \in 1..Len(bs) :
                               bs[k].uid = uid /\ \A j \in (k + 1)..Len(bs) : bs[j].uid # uid]
                Key(enemy_base) == Dist2(base.pos, enemy_base.pos)
            IN  MinBy(enemy_bases, Key)]

get_target_per_base(i) ==
    LET enemy_bases == get_enemy_bases(i)
        bs == i.own.bases.items
    IN  [uid \in Uids(bs) |->
            LET base == bs[CHOOSE k \in 1..Len(bs) :
                               bs[k].uid = uid /\ \A j \in (k + 1)..Len(bs) : bs[j].uid # uid]
                Key(enemy_base) == Dist2(base.pos, enemy_base.pos)
            IN  MinBy(enemy_bases, Key)]

get_target_per_tank(i) ==
    LET enemy_bases == get_enemy_bases(i)
        ts == Get(i.own, "tanks")
    IN  [uid \in Uids(ts) |->
            LET tank == ts[CHOOSE k \in 1..Len(ts) :
                               ts[k].uid = uid /\ \A j \in (k + 1)..Len(ts) : ts[j].uid # uid]
                Key(enemy_base) == Dist2(tank.pos, enemy_base.pos)
            IN  MinBy(enemy_bases, Key)]

\* find_nearest_enemy_ship with the comparison of line 482 turned round.
find_nearest_enemy_ship_Beyond(i, base, distance_limit) ==
    LET enemy_ships == get_enemy_ships(i)
    IN  IF Len(enemy_ships) = 0 THEN [err |-> "none", ship |-> None]
        ELSE IF base = None THEN [err |-> "AttributeError", ship |-> None]
        ELSE LET Key(ship) == Dist2(base[1].pos, ship.pos)
                 result == MinBy(enemy_ships, Key)
             IN  IF distance_limit # 0 /\ Key(result[1]) > Sq(distance_limit)
                 THEN [err |-> "none", ship |-> result]
                 ELSE [err |-> "none", ship |-> None]

\* base is an optional base: get_distance on None raises AttributeError.  The
\* result is [err, ship]: the exception raised, if any, and the optional ship.
find_nearest_enemy_ship(i, base, distance_limit) ==
    LET enemy_ships == get_enemy_ships(i)
    IN  IF Len(enemy_ships) = 0 THEN [err |-> "none", ship |-> None]
        ELSE IF base = None THEN [err |-> "AttributeError", ship |-> None]
        ELSE LET Key(ship) == Dist2(base[1].pos, ship.pos)
                 result == MinBy(enemy_ships, Key)
             IN  IF distance_limit # 0 /\ Key(result[1]) < Sq(distance_limit)
                 THEN [err |-> "none", ship |-> result]
                 ELSE [err |-> "none", ship |-> None]

-----------------------------------------------------------------------------
(* run, the base loop : lines 243-281 *)

AlertRadius == 100

\* Lines 265-268 with <= for <.
Flagged_Inclusive(base, closest_enemy) ==
    closest_enemy # None /\ Dist2(base.pos, closest_enemy[1].pos) <= Sq(AlertRadius)

\* Lines 265-268: closest_enemy and base.get_distance(...) < 100
Flagged(base, closest_enemy) ==
    closest_enemy # None /\ Dist2(base.pos, closest_enemy[1].pos) < Sq(AlertRadius)

\* The role sets and the counters of the agent.
Copy(f) == [x \in DOMAIN f |-> f[x]]

Books(s) ==
    [tanks_def |-> Copy(s.tanks_def), tanks_att |-> Copy(s.tanks_att),
     ships |-> Copy(s.ships), jets_def |-> Copy(s.jets_def),
     ntanks_def |-> Copy(s.ntanks_def), ntanks_att |-> Copy(s.ntanks_att),
     nships |-> Copy(s.nships), njets |-> Copy(s.njets)]

\* One pass of the base loop.  What get_next_stage chose and what executing it
\* did (the books before and after, the engine builds invoked) is kept in choices.
BaseStep(s, i, base) ==
    LET uid == base.uid
        s1 == [s EXCEPT
                 !.ntanks_def = IF uid \in DOMAIN s.ntanks_def THEN @ ELSE Put(@, uid, 0),
                 !.ntanks_att = IF uid \in DOMAIN s.ntanks_def THEN @ ELSE Put(@, uid, 0),
                 !.nships = IF uid \in DOMAIN @ THEN @ ELSE Put(@, uid, 0),
                 !.njets = IF uid \in DOMAIN @ THEN @ ELSE Put(@, uid, 0),
                 !.tanks_def = IF uid \in DOMAIN @ THEN @ ELSE Put(@, uid, {}),
                 !.tanks_att = IF uid \in DOMAIN @ THEN @ ELSE Put(@, uid, {}),
                 !.ships = IF uid \in DOMAIN @ THEN @ ELSE Put(@, uid, {})]
        Key(vehicle) == Dist2(base.pos, vehicle.pos)
        closest_enemy == MinBy(get_enemy_vehicles(i), Key)
        s2 == [s1 EXCEPT !.bases_under_attack =
                 Put(@, uid, IF Flagged(base, closest_enemy)
                             THEN closest_enemy[1].pos ELSE None)]
        s3 == update_vehicles(s2, i.own)
        next == get_next_stage(s3, base)
        s4 == Execute(next.action, next.s, base)
    IN  [s4 EXCEPT !.choices = Append(@,
            [uid |-> uid, obj |-> base.obj, action |-> next.action,
             stage |-> next.stage, mines |-> base.mines,
             counts |-> <<Cardinality(s3.tanks_def[uid]),
                          Cardinality(s3.tanks_att[uid]),
                          Cardinality(s3.ships[uid]),
                          Cardinality(JetsOf(s3, uid))>>,
             nships |-> s3.nships[uid],
             skipped |-> {j \in 1..(IF next.stage = 0 THEN Len(stages) ELSE next.stage) :
                             /\ stages[j].item = "ships"
                             /\ already_built_ships_and_not_jet(s3, base, stages[j].count)},
             pre |-> Books(next.s), post |-> Books(s4),
             built |-> SubSeq(s4.built, Len(next.s.built) + 1, Len(s4.built))])]

BaseLoop(s, i) ==
    LET s0 == [s EXCEPT !.bases_under_attack = <<>>]
        Body(a, base) == BaseStep(a, i, base)
    IN  IF ~Has(i.own, "bases") THEN Raise(s0, "KeyError", "bases", 0)
        ELSE ForEach(Body, s0, i.own.bases.items, 1)

\* lines 283-295: the target maps, and the unused first-enemy-base target, which
\* indexes the first element of every enemy "bases" list that is present.
\* The two maps computed at lines 285-286 are kept in targets.
TargetStep(s, i) ==
    IF s.err # "none" THEN s
    ELSE LET s1 == [s EXCEPT !.targets = [per_base |-> get_target_per_base(i),
                                          per_tank |-> get_target_per_tank(i)]]
         IN  IF \E k \in 1..Len(i.enemies) :
                    Has(i.enemies[k], "bases") /\ Len(i.enemies[k].bases.items) = 0
             THEN Raise(s1, "IndexError", "targets", 0)
             ELSE s1

-----------------------------------------------------------------------------
(* run, the tank loop : lines 343-370 *)

PatrolMin == 40

PatrolMax == 50

\* Line 347 with a closed band.
InPatrolBand_Closed(d2) == Sq(PatrolMin) <= d2 /\ d2 <= Sq(PatrolMax)

\* Line 347: 40 < tank.get_distance(base.x, base.y, shortest=True) < 50
InPatrolBand(d2) == Sq(PatrolMin) < d2 /\ d2 < Sq(PatrolMax)

\* The body of "for base in myinfo['bases']" for one tank, lines 346-358.
TankBase(s, tank, base, target_per_base, target_per_tank) ==
    IF tank.uid \in s.tanks_def[base.uid]
    THEN IF InPatrolBand(Dist2(tank.pos, base.pos))
         THEN Issue(Issue(s, tank.uid, "set_heading", <<0 - tank.heading>>),
                    tank.uid, "set_vector", Neg(tank.vector))
         ELSE s
    ELSE IF tank.uid \in s.tanks_att[base.uid]
         THEN IF target_per_base[base.uid] # None
              THEN Issue(s, tank.uid, "goto", target_per_base[base.uid][1].pos)
              ELSE IF target_per_tank[tank.uid] # None
                   THEN Issue(s, tank.uid, "goto", target_per_tank[tank.uid][1].pos)
                   ELSE s
         ELSE s

\* self.bases_under_attack.get(uid): None for a missing key.
UnderAttackGet(s, uid) ==
    IF uid \in DOMAIN s.bases_under_attack THEN s.bases_under_attack[uid] ELSE None

\* Lines 359-360: the override towards the threat of the owning base.
TankOverride(s, tank) ==
    IF UnderAttackGet(s, tank.owner) # None
    THEN Issue(s, tank.uid, "goto", UnderAttackGet(s, tank.owner))
    ELSE s

\* TankReassign without line 365: the tank is added to the attack set and stays in
\* the defense set.
TankReassign_KeepsDef(s, i, tank, target_per_tank) ==
    IF get_base_by_uid(i, tank.owner) # None THEN s
    ELSE IF tank.uid \notin s.tanks_def[tank.owner] THEN s
    ELSE LET moved == [s EXCEPT !.tanks_att[tank.owner] = @ \cup {tank.uid}]
         IN  IF target_per_tank[tank.uid] # None
             THEN Issue(moved, tank.uid, "goto", target_per_tank[tank.uid][1].pos)
             ELSE Issue(moved, tank.uid, "set_heading_random", <<>>)

\* Lines 361-370: the owning base is in no team's roster any more.
TankReassign(s, i, tank, target_per_tank) ==
    IF get_base_by_uid(i, tank.owner) # None THEN s
    ELSE IF tank.owner \notin DOMAIN s.tanks_def THEN Raise(s, "KeyError", "tanks", tank.uid)
    ELSE IF tank.uid \notin s.tanks_def[tank.owner] THEN s
    ELSE IF tank.owner \notin DOMAIN s.tanks_att THEN Raise(s, "KeyError", "tanks", tank.uid)
    ELSE LET moved == [s EXCEPT !.tanks_def[tank.owner] = @ \ {tank.uid},
                                !.tanks_att[tank.owner] = @ \cup {tank.uid}]
         IN  IF target_per_tank[tank.uid] # None
             THEN Issue(moved, tank.uid, "goto", target_per_tank[tank.uid][1].pos)
             ELSE Issue(moved, tank.uid, "set_heading_random", <<>>)

TankStep(s, i, tank, target_per_base, target_per_tank) ==
    LET Body(a, base) == TankBase(a, tank, base, target_per_base, target_per_tank)
        s1 == ForEach(Body, s, i.own.bases.items, 1)
        s2 == TankOverride(s1, tank)
    IN  TankReassign(s2, i, tank, target_per_tank)

TankLoop(s, i) ==
    LET target_per_base == get_target_per_base(i)
        target_per_tank == get_target_per_tank(i)
        Body(a, tank) == TankStep(a, i, tank, target_per_base, target_per_tank)
    IN  IF s.err # "none" \/ ~Has(i.own, "tanks") THEN s
        ELSE ForEach(Body, s, i.own.tanks.items, 1)

-----------------------------------------------------------------------------
(* run, the stuck detection of tanks : lines 371-383 *)

StuckStep(s, tank) ==
    LET s1 == IF /\ tank.uid \in DOMAIN s.previous_positions
                 /\ ~tank.stopped
                 /\ tank.pos = s.previous_positions[tank.uid]
              THEN Issue(s, tank.uid, "set_heading_random", <<>>)
              ELSE s
    IN  [s1 EXCEPT !.previous_positions = Put(@, tank.uid, tank.pos)]

StuckLoop(s, i) ==
    IF s.err # "none" \/ ~Has(i.own, "tanks") THEN s
    ELSE ForEach(StuckStep, s, i.own.tanks.items, 1)

-----------------------------------------------------------------------------
(* run, the ship loop : lines 386-402 *)

ShipSafety == 60

\* Lines 393-397 with >= for >.
ShipIsFar_Inclusive(i, ship) ==
    LET bs == AllBases(i)
    IN  \A k \in 1..Len(bs) : Dist2(ship.pos, bs[k].pos) >= Sq(ShipSafety)

\* Lines 393-397: every base of every team is farther than 60 from the ship.
ShipIsFar(i, ship) ==
    LET bs == AllBases(i)
    IN  \A k \in 1..Len(bs) : Dist2(ship.pos, bs[k].pos) > Sq(ShipSafety)

ShipStep(s, i, ship) ==
    LET s1 == IF /\ ship.uid \in DOMAIN s.previous_positions
                 /\ ship.pos = s.previous_positions[ship.uid]
              THEN IF ShipIsFar(i, ship)
                   THEN Issue(s, ship.uid, "convert_to_base", <<>>)
                   ELSE Issue(s, ship.uid, "set_heading_random", <<>>)
              ELSE s
    IN  [s1 EXCEPT !.previous_positions = Put(@, ship.uid, ship.pos)]

ShipLoop(s, i) ==
    LET Body(a, ship) == ShipStep(a, i, ship)
    IN  IF s.err # "none" \/ ~Has(i.own, "ships") THEN s
        ELSE ForEach(Body, s, i.own.ships.items, 1)

-----------------------------------------------------------------------------
(* run, the jet loop : lines 405-447 *)

ShipDetect == 300

JetBandMin == 100

JetBandMax == 110

InJetBand(d2) == Sq(JetBandMin) < d2 /\ d2 < Sq(JetBandMax)

\* [base for base in myinfo["bases"] if 100 < jet.get_distance(base.x, base.y) < 110]
RECURSIVE BandBases(_, _, _)
BandBases(bs, jet, k) ==
    IF k > Len(bs) THEN <<>>
    ELSE (IF InJetBand(Dist2(jet.pos, bs[k].pos)) THEN <<bs[k]>> ELSE <<>>)
         \o BandBases(bs, jet, k + 1)

\* bases_under_attack is a defaultdict whose default_factory is None: indexing it
\* with a missing key raises KeyError, as does indexing target_per_base.
JetStep(s, i, jet, target_per_base) ==
    IF jet.owner \notin DOMAIN s.bases_under_attack THEN Raise(s, "KeyError", "jets", jet.uid)
    ELSE IF s.bases_under_attack[jet.owner] # None
    THEN [Issue(s, jet.uid, "goto", s.bases_under_attack[jet.owner])
            EXCEPT !.previous_positions = Put(@, jet.uid, jet.pos)]
    ELSE
    LET found == find_nearest_enemy_ship(i, get_base_by_uid(i, jet.owner), ShipDetect)
        Key(b) == Dist2(jet.pos, b.pos)
        nearest_base == MinBy(BandBases(i.own.bases.items, jet, 1), Key)
        s1 ==
            IF found.err # "none" THEN Raise(s, found.err, "jets", jet.uid)
            ELSE IF found.ship # None
            THEN Issue(s, jet.uid, "goto", found.ship[1].pos)
            ELSE IF jet.owner \notin DOMAIN target_per_base
            THEN Raise(s, "KeyError", "jets", jet.uid)
            ELSE IF /\ target_per_base[jet.owner] # None
                    /\ Dist2(jet.pos, target_per_base[jet.owner][1].pos) # 0
            THEN Issue(s, jet.uid, "goto", target_per_base[jet.owner][1].pos)
            ELSE IF nearest_base # None
            THEN Issue(Issue(s, jet.uid, "goto", nearest_base[1].pos),
                       jet.uid, "set_heading_jitter", <<jet.heading>>)
            ELSE IF /\ jet.uid \in DOMAIN s.previous_positions
                    /\ jet.pos = s.previous_positions[jet.uid]
            THEN Issue(s, jet.uid, "set_heading_random", <<>>)
            ELSE s
    IN  IF s1.err # "none" THEN s1
        ELSE [s1 EXCEPT !.previous_positions = Put(@, jet.uid, jet.pos)]

JetLoop(s, i) ==
    LET target_per_base == get_target_per_base(i)
        Body(a, jet) == JetStep(a, i, jet, target_per_base)
    IN  IF s.err # "none" \/ ~Has(i.own, "jets") THEN s
        ELSE ForEach(Body, s, i.own.jets.items, 1)

-----------------------------------------------------------------------------
(* run : lines 181-447 *)

run(s, i) == JetLoop(ShipLoop(StuckLoop(TankLoop(TargetStep(BaseLoop(s, i), i), i), i), i), i)

-----------------------------------------------------------------------------
(* The engine: the snapshots it can pass to run() *)

Present(items) == [present |-> TRUE, items |-> items]

Absent == [present |-> FALSE, items |-> <<>>]

Team(b, t, sh, j) == [bases |-> b, tanks |-> t, ships |-> sh, jets |-> j]

\* A category of the snapshot: with omit, a kind without units has no key.
Cat(items, omit) == IF omit /\ Len(items) = 0 THEN Absent ELSE Present(items)

RECURSIVE SeqOf(_)
SeqOf(S) ==
    IF S = {} THEN <<>>
    ELSE LET m == CHOOSE x \in S : \A y \in S : x <= y
         IN  <<m>> \o SeqOf(S \ {m})

BaseUid(k) == 100 + k

\* Bases do not move: the position of a base is a function of its uid.
BasePos(uid) == <<(uid - BaseUid(1)) * 1000, 0>>

\* base.cost(item) of the engine.
Cost == [mine |-> 1000, tank |-> 500, ship |-> 2000, jet |-> 4000]

OfKind(w, kind, S) == {u \in S : w.units[u].kind = kind}

\* The ships the last run() told to convert: the engine may turn one into a base.
Convertible(w, cmds, maxBases) ==
    IF w.nbases >= maxBases THEN {}
    ELSE {u \in OfKind(w, "ship", w.alive) :
             \E k \in 1..Len(cmds) : cmds[k].uid = u /\ cmds[k].op = "convert_to_base"}

MkInfo(w, bs, surv, mines, crystal, obj, tpos, stopped, spos, jpos, enemies, omit) ==
    LET bq == SeqOf(bs)
        tq == SeqOf(OfKind(w, "tank", surv))
        sq == SeqOf(OfKind(w, "ship", surv))
        jq == SeqOf(OfKind(w, "jet", surv))
        bases == [k \in 1..Len(bq) |->
                    [uid |-> bq[k], obj |-> <<bq[k], obj[bq[k]]>>, pos |-> BasePos(bq[k]),
                     mines |-> mines[bq[k]], crystal |-> crystal[bq[k]], cost |-> Cost]]
        tanks == [k \in 1..Len(tq) |->
                    [uid |-> tq[k], pos |-> tpos[tq[k]], owner |-> w.units[tq[k]].owner,
                     stopped |-> stopped[tq[k]], heading |-> 90, vector |-> <<0, 1>>]]
        shps == [k \in 1..Len(sq) |->
                    [uid |-> sq[k], pos |-> spos[sq[k]], owner |-> w.units[sq[k]].owner]]
        jets == [k \in 1..Len(jq) |->
                    [uid |-> jq[k], pos |-> jpos[jq[k]], owner |-> w.units[jq[k]].owner,
                     heading |-> 90]]
    IN  [own |-> Team(Present(bases), Cat(tanks, omit), Cat(shps, omit), Cat(jets, omit)),
         enemies |-> enemies]

NoInfo == [own |-> Team(Present(<<>>), Absent, Absent, Absent), enemies |-> <<>>]

-----------------------------------------------------------------------------
(* The state machine *)

Init ==
    /\ previous_positions = <<>>
    /\ ntanks_def = <<>>
    /\ tanks_def = <<>>
    /\ ntanks_att = <<>>
    /\ tanks_att = <<>>
    /\ nships = <<>>
    /\ ships = <<>>
    /\ njets = <<>>
    /\ jets_def = <<>>
    /\ bases_under_attack = <<>>
    /\ cycle_cache = <<>>
    /\ world = [units |-> <<>>, alive |-> {}, bases |-> {BaseUid(1)}, nbases |-> 1]
    /\ info = NoInfo
    /\ trace = [op |-> "init", built |-> <<>>, cmds |-> <<>>, err |-> "none", errAt |-> "",
                errUid |-> 0, choices |-> <<>>,
                targets |-> [per_base |-> <<>>, per_tank |-> <<>>]]

\* One call of run() on snapshot i; surv are the units the snapshot lists, bs its
\* own bases and nb the number of own bases the engine has created so far.
Step(i, surv, bs, nb) ==
    \E s \in {run(Self, i)} :
        /\ previous_positions' = s.previous_positions
        /\ ntanks_def' = s.ntanks_def
        /\ tanks_def' = s.tanks_def
        /\ ntanks_att' = s.ntanks_att
        /\ tanks_att' = s.tanks_att
        /\ nships' = s.nships
        /\ ships' = s.ships
        /\ njets' = s.njets
        /\ jets_def' = s.jets_def
        /\ bases_under_attack' = s.bases_under_attack
        /\ cycle_cache' = s.cycle_cache
        /\ world' = [units |-> s.units,
                     alive |-> surv \cup ({s.built[k].uid : k \in 1..Len(s.built)} \ {0}),
                     bases |-> bs, nbases |-> nb]
        /\ info' = i
        /\ trace' = [op |-> "run", built |-> s.built, cmds |-> s.cmds, err |-> s.err,
                     errAt |-> s.errAt, errUid |-> s.errUid, choices |-> s.choices,
                     targets |-> s.targets]

\* The engine calls run() with any snapshot the environment E allows: units the
\* agent built and that are still alive, less those lost since the last tick; the
\* own bases still standing, and the base a converted ship has become.  The
\* engine hands out at most E.maxUnits unit uids: once they are used up, the
\* bases have no crystal left.
Run(E) ==
    \E conv \in {c \in SUBSET Convertible(world, trace.cmds, E.maxBases) : Cardinality(c) <= 1},
       lost \in SUBSET {u \in world.alive : world.units[u].kind \in E.loss},
       lostB \in (IF E.baseLoss THEN SUBSET world.bases ELSE {{}}) :
        LET surv == world.alive \ (lost \cup conv)
            nb == world.nbases + Cardinality(conv)
            bs == (world.bases \ lostB) \cup (IF conv = {} THEN {} ELSE {BaseUid(nb)})
            room == E.maxUnits - Len(world.units)
            crystals == {c \in [bs -> E.crystal \cup {0}] :
                            Cardinality({b \in bs : c[b] > 0}) <= room}
        IN  \E mines \in [bs -> E.mines], crystal \in crystals,
               obj \in [bs -> E.objs],
               tpos \in [OfKind(world, "tank", surv) -> E.tankPos],
               stopped \in [OfKind(world, "tank", surv) -> E.stopped],
               spos \in [OfKind(world, "ship", surv) -> E.shipPos],
               jpos \in [OfKind(world, "jet", surv) -> E.jetPos],
               enemies \in E.enemies, omit \in E.omit :
                Step(MkInfo(world, bs, surv, mines, crystal, obj, tpos, stopped,
                            spos, jpos, enemies, omit), surv, bs, nb)

-----------------------------------------------------------------------------
(* Specifications: the same run(), under different environments *)

NoEnemies == {<<>>}

\* Roster bookkeeping: units and bases are lost, ships become bases, no enemies.
RosterEnv ==
    [maxUnits |-> MaxUnits, maxBases |-> MaxBases, mines |-> {2}, crystal |-> {0, 2500},
     objs |-> {1}, loss |-> {"tank", "ship", "jet"}, baseLoss |-> TRUE,
     tankPos |-> {<<45, 0>>}, stopped |-> {FALSE}, shipPos |-> {<<500, 0>>},
     jetPos |-> {<<105, 0>>}, enemies |-> NoEnemies, omit |-> {TRUE}]

RosterNext == Run(RosterEnv)

Spec == Init /\ [][RosterNext]_vars

\* An enemy team with the given tanks, ships and bases; a kind without units has
\* no key in the snapshot.
Enemy(tanks, shps, bases) ==
    Team(Cat(bases, TRUE), Cat(tanks, TRUE), Cat(shps, TRUE), Absent)

At(x, y) == [pos |-> <<x, y>>]

EnemyBase(k, x, y) == [uid |-> 200 + k, pos |-> <<x, y>>]

\* The fallback rotation: one base that never loses a unit and is handed to run()
\* as one of several objects.
RotationEnv ==
    [maxUnits |-> RotationUnits, maxBases |-> 1, mines |-> {3}, crystal |-> {5000},
     objs |-> 1..MaxObjs, loss |-> {}, baseLoss |-> FALSE,
     tankPos |-> {<<20, 0>>}, stopped |-> {FALSE}, shipPos |-> {<<30, 0>>},
     jetPos |-> {<<25, 0>>}, enemies |-> NoEnemies, omit |-> {TRUE}]

RotationNext == Run(RotationEnv)

SpecRotation == Init /\ [][RotationNext]_vars

\* Jets: one base that builds up to its first jet and may then be destroyed, with
\* enemy ships, tanks and bases around or not.
JetEnemies ==
    { <<>>,
      <<Enemy(<<>>, <<>>, <<EnemyBase(1, 2000, 0)>>)>>,
      <<Enemy(<<>>, <<At(299, 0)>>, <<>>)>>,
      <<Enemy(<<>>, <<At(299, 0)>>, <<EnemyBase(1, 2000, 0)>>)>>,
      <<Enemy(<<>>, <<At(300, 0)>>, <<EnemyBase(1, 2000, 0)>>)>>,
      <<Enemy(<<>>, <<At(400, 0)>>, <<EnemyBase(1, 2000, 0)>>)>>,
      <<Enemy(<<>>, <<At(400, 0), At(0, 299)>>, <<EnemyBase(1, 2000, 0)>>)>>,
      <<Enemy(<<At(50, 0)>>, <<At(299, 0)>>, <<EnemyBase(1, 2000, 0)>>)>> }

JetEnv ==
    [maxUnits |-> JetUnits, maxBases |-> 1, mines |-> {3}, crystal |-> {5000},
     objs |-> {1}, loss |-> {}, baseLoss |-> TRUE,
     tankPos |-> {<<20, 0>>}, stopped |-> {FALSE}, shipPos |-> {<<30, 0>>},
     jetPos |-> {<<105, 0>>, <<0, 20>>}, enemies |-> JetEnemies, omit |-> {TRUE}]

JetNext == Run(JetEnv)

SpecJets == Init /\ [][JetNext]_vars

\* Threats: two bases at most, enemy vehicles of one or two teams at distances
\* around the alert radius of 100, own tanks closer than that.
ThreatEnemies ==
    { <<>>,
      <<Team(Present(<<EnemyBase(1, 0, 50)>>), Absent, Absent, Absent)>>,
      <<Team(Absent, Present(<<At(99, 0)>>), Absent, Absent)>>,
      <<Team(Absent, Present(<<At(101, 0)>>), Present(<<At(100, 0)>>), Absent)>>,
      <<Team(Absent, Absent, Present(<<At(0, 101)>>), Present(<<At(60, 80)>>))>>,
      <<Team(Absent, Present(<<At(0, 99), At(99, 0)>>), Absent, Present(<<At(0, 98)>>))>>,
      <<Team(Absent, Present(<<At(100, 0)>>), Absent, Absent),
        Team(Absent, Absent, Absent, Present(<<At(1000, 99)>>))>> }

ThreatEnv ==
    [maxUnits |-> MaxUnits, maxBases |-> MaxBases, mines |-> {2}, crystal |-> {2500},
     objs |-> {1}, loss |-> {}, baseLoss |-> TRUE,
     tankPos |-> {<<20, 0>>}, stopped |-> {FALSE}, shipPos |-> {<<500, 0>>},
     jetPos |-> {<<105, 0>>}, enemies |-> ThreatEnemies, omit |-> {TRUE}]

ThreatNext == Run(ThreatEnv)

SpecThreat == Init /\ [][ThreatNext]_vars

\* Ships: a ship that moves or not, at 60, 61 and 500 from its base, with an
\* enemy base at 60 or 61 from it or without.
ShipEnemies ==
    { <<>>,
      <<Team(Present(<<EnemyBase(1, 121, 0)>>), Absent, Absent, Absent)>>,
      <<Team(Present(<<EnemyBase(1, 122, 0)>>), Absent, Absent, Absent)>> }

ShipEnv ==
    [maxUnits |-> MaxUnits, maxBases |-> MaxBases, mines |-> {2}, crystal |-> {2500},
     objs |-> {1}, loss |-> {}, baseLoss |-> TRUE,
     tankPos |-> {<<20, 0>>}, stopped |-> {FALSE},
     shipPos |-> {<<61, 0>>, <<60, 0>>, <<500, 0>>},
     jetPos |-> {<<105, 0>>}, enemies |-> ShipEnemies, omit |-> {TRUE}]

ShipNext == Run(ShipEnv)

SpecShips == Init /\ [][ShipNext]_vars

\* Defense tanks at 40, 45 and 50 from their base, with an enemy tank next to the
\* base or without.
TankEnemies ==
    { <<>>, <<Team(Absent, Present(<<At(0, 10)>>), Absent, Absent)>> }

TankEnv ==
    [maxUnits |-> TankUnits, maxBases |-> 1, mines |-> {2}, crystal |-> {2500},
     objs |-> {1}, loss |-> {}, baseLoss |-> FALSE,
     tankPos |-> {<<40, 0>>, <<27, 36>>, <<30, 40>>, <<0, 50>>}, stopped |-> {FALSE},
     shipPos |-> {<<500, 0>>},
     jetPos |-> {<<105, 0>>}, enemies |-> TankEnemies, omit |-> {TRUE}]

TankNext == Run(TankEnv)

SpecTanks == Init /\ [][TankNext]_vars

-----------------------------------------------------------------------------
(* What the last run() call saw and did *)

Roster(kind) == Uids(Get(info.own, kind))

OwnBases == Uids(Get(info.own, "bases"))

BuiltNow == {trace.built[k].uid : k \in 1..Len(trace.built)} \ {0}

BaseUids == DOMAIN tanks_def \cup DOMAIN tanks_att \cup DOMAIN ships \cup DOMAIN jets_def

SetOf(sets, b) == IF b \in DOMAIN sets THEN sets[b] ELSE {}

\* The role set a build action registers the new uid in.
RoleSet(role, b) ==
    CASE role = "build_tank_def" -> SetOf(tanks_def, b)
      [] role = "build_tank_att" -> SetOf(tanks_att, b)
      [] role = "build_ship" -> SetOf(ships, b)
      [] role = "build_jet" -> SetOf(jets_def, b)

\* How many times the last run() call issued command op to unit uid.
Issued(tr, uid, op) ==
    Cardinality({k \in 1..Len(tr.cmds) : tr.cmds[k].uid = uid /\ tr.cmds[k].op = op})

\* The tank loop of the last run() call went through all the tanks.
TanksProcessed == trace.errAt \notin {"bases", "targets", "tanks"}

-----------------------------------------------------------------------------
(* C1 *)

\* C1: after run() has processed a snapshot, every identifier in a role set
\* (tanks_def, tanks_att, ships, jets_def, for every base uid) that was not built
\* during that run() is in the snapshot's live roster of its kind, whatever the
\* number of own bases in the snapshot.
C1_NoDanglingIds ==
    \A b \in BaseUids :
        /\ SetOf(tanks_def, b) \subseteq Roster("tanks") \cup BuiltNow
        /\ SetOf(tanks_att, b) \subseteq Roster("tanks") \cup BuiltNow
        /\ SetOf(ships, b) \subseteq Roster("ships") \cup BuiltNow
        /\ SetOf(jets_def, b) \subseteq Roster("jets") \cup BuiltNow

-----------------------------------------------------------------------------
(* C2 *)

C2_Disjoint == \A b \in BaseUids : SetOf(tanks_def, b) \cap SetOf(tanks_att, b) = {}

\* A step of run(): a tank of the snapshot that was in tanks_def[b], with no base
\* of uid b in the snapshot, is in tanks_att[b] and not in tanks_def[b] afterwards.
C2_Reassigned ==
    \A b \in DOMAIN tanks_def :
        \A u \in tanks_def[b] \cap Uids(Get(info'.own, "tanks")) :
            (get_base_by_uid(info', b) = None /\ TanksProcessed')
                => (u \in SetOf(tanks_att', b) /\ u \notin SetOf(tanks_def', b))

\* C2: in every reachable state tanks_def[uid] and tanks_att[uid] are disjoint for
\* every base uid, and a tank of tanks_def[b] processed in a tick whose snapshot
\* has no base with uid b is afterwards in tanks_att[b] and not in tanks_def[b].
C2_DefenseTankRoles == [](C2_Disjoint) /\ [][C2_Reassigned]_vars

\* A tank of the snapshot sits in the attack set of a base that is gone and that
\* never built an attack tank: it was moved there from the defense set.
C2_Witness ==
    \E b \in DOMAIN tanks_att :
        /\ get_base_by_uid(info, b) = None
        /\ ntanks_att[b] = 0
        /\ tanks_att[b] \cap Roster("tanks") # {}
        /\ TanksProcessed

-----------------------------------------------------------------------------
(* C3 *)

\* C3: a unit identifier returned by a build call of base b in tick t is a member
\* of the matching role set of b at the end of tick t: it is not removed during
\* tick t by the processing of another own base later in the same run() call.
C3_BuiltIsRegistered ==
    \A k \in 1..Len(trace.built) :
        trace.built[k].uid # 0
            => trace.built[k].uid \in RoleSet(trace.built[k].role, trace.built[k].base)

-----------------------------------------------------------------------------
(* C4 *)

\* The choice get_next_stage made for base uid b in the run() call recorded in tr,
\* as a set: empty when the call did not process b.
ChoicesOf(tr, b) == {c \in Range(tr.choices) : c.uid = b}

RotationIndex(action) == CHOOSE k \in 1..Len(Rotation) : Rotation[k] = action

\* C4: for a base whose stage thresholds are all satisfied at every call,
\* successive get_next_stage calls return build_tank_def, build_jet,
\* build_tank_att, build_ship in that order and repeat: the rotation position of
\* the base advances by exactly one per call for that base, across ticks.
C4_RotationAdvances ==
    [][\A c \in Range(trace.choices) : \A d \in ChoicesOf(trace', c.uid) :
          (c.stage = 0 /\ d.stage = 0)
              => d.action = Rotation[(RotationIndex(c.action) % Len(Rotation)) + 1]]_vars

-----------------------------------------------------------------------------
(* C5 *)

\* C5: a staged (non-fallback) action is a function only of (base.mines,
\* |tanks_def[uid]|, |tanks_att[uid]|, |ships[uid]|, |jets_def[uid]|): two calls
\* of get_next_stage that agree on these five values choose the same action.
C5_StageIsFunctionOfCounts ==
    [][\A c \in Range(trace.choices) \cup Range(trace'.choices) :
          \A d \in Range(trace'.choices) :
              (c.stage > 0 /\ d.stage > 0 /\ c.mines = d.mines /\ c.counts = d.counts)
                  => c.action = d.action]_vars

-----------------------------------------------------------------------------
(* C6 *)

\* C6: run() completes without raising for every reachable agent state and every
\* snapshot in which the own team has an entry, also when the owning base of a
\* live own unit is no longer present, when there are no enemies and when a
\* category of units is missing.
C6_RunNeverRaises == trace.err = "none"

-----------------------------------------------------------------------------
(* C7 *)

\* The positions of the tanks, ships and jets of the teams other than the own one.
EnemyVehiclePositions ==
    UNION {{Get(info.enemies[e], cat)[k].pos : k \in 1..Len(Get(info.enemies[e], cat))} :
              e \in 1..Len(info.enemies), cat \in {"tanks", "ships", "jets"}}

Nearest(p, P) == {q \in P : \A r \in P : Dist2(p, q) <= Dist2(p, r)}

\* C7: after the base loop, for every own base b of the snapshot,
\* bases_under_attack[b.uid] is the position of an enemy vehicle at minimal
\* distance from b if and only if that distance is strictly less than 100, and is
\* None at 100 or more or without enemy vehicles; own vehicles do not count.
C7_ThreatMap ==
    trace.errAt # "bases" =>
        \A k \in 1..Len(info.own.bases.items) :
            LET b == info.own.bases.items[k]
                near == Nearest(b.pos, EnemyVehiclePositions)
            IN  /\ b.uid \in DOMAIN bases_under_attack
                /\ IF \E q \in near : Dist2(b.pos, q) < 100 * 100
                   THEN bases_under_attack[b.uid] \in near
                   ELSE bases_under_attack[b.uid] = None

\* Two own bases in one snapshot: the nearest enemy of one is at exactly 100 and
\* the base is not flagged, the nearest enemy of the other is at 99 and is its
\* threat, while own tanks stand at 20 from their base.
C7_Witness ==
    /\ Roster("tanks") # {}
    /\ \E k \in 1..Len(info.own.bases.items) :
           LET b == info.own.bases.items[k]
           IN  /\ \E q \in Nearest(b.pos, EnemyVehiclePositions) : Dist2(b.pos, q) = 100 * 100
               /\ bases_under_attack[b.uid] = None
    /\ \E k \in 1..Len(info.own.bases.items) :
           LET b == info.own.bases.items[k]
           IN  /\ bases_under_attack[b.uid] # None
               /\ Dist2(b.pos, bases_under_attack[b.uid]) = 99 * 99

-----------------------------------------------------------------------------
(* C8 *)

EnemyShipPositions ==
    UNION {{Get(info.enemies[e], "ships")[k].pos : k \in 1..Len(Get(info.enemies[e], "ships"))} :
              e \in 1..Len(info.enemies)}

EnemyBasePositions ==
    UNION {{Get(info.enemies[e], "bases")[k].pos : k \in 1..Len(Get(info.enemies[e], "bases"))} :
              e \in 1..Len(info.enemies)}

\* The owning base of the unit is not flagged under attack.
NotFlagged(unit) ==
    unit.owner \notin DOMAIN bases_under_attack \/ bases_under_attack[unit.owner] = None

GotoCmds(uid) == {trace.cmds[k].arg : k \in {j \in 1..Len(trace.cmds) :
                      trace.cmds[j].uid = uid /\ trace.cmds[j].op = "goto"}}

\* The jet loop of the last run() call got to this jet.
JetReached(jet) ==
    /\ trace.errAt \notin {"bases", "targets", "tanks"}
    /\ trace.err = "none" \/ jet.uid < trace.errUid

\* C8: for every own jet whose owning base is not flagged under attack, if the
\* jet is within 300 of an enemy ship, the jet is commanded goto(position of an
\* enemy ship) on that tick and is not commanded toward the enemy-base target of
\* its owning base.  (Stated for the run() calls that do not raise.)
C8_JetWithinRange ==
    trace.err = "none" =>
        \A k \in 1..Len(Get(info.own, "jets")) :
            LET jet == Get(info.own, "jets")[k]
            IN  (NotFlagged(jet) /\ \E q \in EnemyShipPositions :
                                       Dist2(jet.pos, q) < 300 * 300)
                    => /\ GotoCmds(jet.uid) \cap EnemyShipPositions # {}
                       /\ GotoCmds(jet.uid) \cap EnemyBasePositions = {}

\* C8, amended: the distance that counts is the one from the owning base.  For
\* every own jet the jet loop gets to, whose owning base is in the snapshot and
\* not flagged: if the enemy ship nearest to the owning base is at less than 300
\* from that base, the one command of the jet is goto(position of such a nearest
\* ship); otherwise the jet is not sent to an enemy ship.
C8_BaseWithinRange ==
    \A k \in 1..Len(Get(info.own, "jets")) :
        LET jet == Get(info.own, "jets")[k]
            near == Nearest(BasePos(jet.owner), EnemyShipPositions)
        IN  (JetReached(jet) /\ jet.owner \in OwnBases /\ NotFlagged(jet))
                => IF \E q \in near : Dist2(BasePos(jet.owner), q) < 300 * 300
                   THEN /\ GotoCmds(jet.uid) \subseteq near
                        /\ Issued(trace, jet.uid, "goto") = 1
                        /\ \A c \in Range(trace.cmds) : c.uid = jet.uid => c.op = "goto"
                   ELSE GotoCmds(jet.uid) \cap EnemyShipPositions = {}

\* A jet whose base is not flagged and has an enemy-base target was sent to the
\* enemy ship that is nearest to the base, the second of two ships.
C8_Witness ==
    \E k \in 1..Len(Get(info.own, "jets")) :
        LET jet == Get(info.own, "jets")[k]
        IN  /\ jet.owner \in OwnBases /\ NotFlagged(jet)
            /\ EnemyBasePositions # {}
            /\ Cardinality(EnemyShipPositions) = 2
            /\ GotoCmds(jet.uid) = {<<0, 299>>}

-----------------------------------------------------------------------------
(* C9 *)

AllBasePositions(i) ==
    {Get(i.own, "bases")[k].pos : k \in 1..Len(Get(i.own, "bases"))}
    \cup UNION {{Get(i.enemies[e], "bases")[k].pos : k \in 1..Len(Get(i.enemies[e], "bases"))} :
                   e \in 1..Len(i.enemies)}

\* The ship loop of the run() call recorded in tr went through all the ships.
ShipsProcessed(tr) == tr.errAt \notin {"bases", "targets", "tanks"}

-----------------------------------------------------------------------------
(* C10 *)

HasCmd(tr, uid, op, arg) ==
    \E k \in 1..Len(tr.cmds) : tr.cmds[k] = Cmd(uid, op, arg)

\* C10: for every own tank in tanks_def[b.uid] of an own base b of the snapshot,
\* set_heading(-heading) and set_vector(-vector) are issued in that tick if and
\* only if the distance of the tank to b is strictly between 40 and 50.
C10_PatrolReversal ==
    TanksProcessed =>
        \A k \in 1..Len(Get(info.own, "tanks")) : \A j \in 1..Len(info.own.bases.items) :
            LET tank == Get(info.own, "tanks")[k]
                b == info.own.bases.items[j]
                d2 == Dist2(tank.pos, b.pos)
                inside == 40 * 40 < d2 /\ d2 < 50 * 50
            IN  tank.uid \in SetOf(tanks_def, b.uid) =>
                    /\ HasCmd(trace, tank.uid, "set_heading", <<0 - tank.heading>>) <=> inside
                    /\ HasCmd(trace, tank.uid, "set_vector", Neg(tank.vector)) <=> inside
                    /\ Issued(trace, tank.uid, "set_heading") = IF inside THEN 1 ELSE 0
                    /\ Issued(trace, tank.uid, "set_vector") = IF inside THEN 1 ELSE 0

\* Two defense tanks of one base in one tick: one at 45 was reversed, one at
\* exactly 50 was not.
C10_Witness ==
    \E k, j \in 1..Len(Get(info.own, "tanks")) :
        LET t1 == Get(info.own, "tanks")[k]
            t2 == Get(info.own, "tanks")[j]
        IN  /\ t1.uid \in SetOf(tanks_def, t1.owner) /\ t2.uid \in SetOf(tanks_def, t2.owner)
            /\ t1.owner \in OwnBases /\ t2.owner \in OwnBases
            /\ Dist2(t1.pos, BasePos(t1.owner)) = 45 * 45
            /\ Dist2(t2.pos, BasePos(t2.owner)) = 50 * 50
            /\ Issued(trace, t1.uid, "set_heading") = 1
            /\ Issued(trace, t2.uid, "set_heading") = 0

-----------------------------------------------------------------------------
(* C11 *)

\* Retries: one base, always handed over as the same object, that has crystal on
\* some ticks and none on others, up to and into the fallback rotation.
RetryEnv ==
    [maxUnits |-> RotationUnits, maxBases |-> 1, mines |-> {2, 3}, crystal |-> {0, 5000},
     objs |-> {1}, loss |-> {}, baseLoss |-> FALSE,
     tankPos |-> {<<20, 0>>}, stopped |-> {FALSE}, shipPos |-> {<<30, 0>>},
     jetPos |-> {<<25, 0>>}, enemies |-> NoEnemies, omit |-> {TRUE}]

RetryNext == Run(RetryEnv)

SpecRetry == Init /\ [][RetryNext]_vars

\* The item whose cost the build action compares base.crystal with.
ItemOf(action) ==
    CASE action = "build_mine" -> "mine"
      [] action \in {"build_tank_def", "build_tank_att"} -> "tank"
      [] action = "build_ship" -> "ship"
      [] action = "build_jet" -> "jet"

\* The own base of uid b in snapshot i, as a set.
BasesOf(i, b) == {x \in Range(Get(i.own, "bases")) : x.uid = b}

\* The action chosen in c was not executed: the crystal of the base did not
\* exceed the cost of the item.
Skipped(i, c) == \A b \in BasesOf(i, c.uid) : b.crystal <= b.cost[ItemOf(c.action)]

\* C11: if the action chosen for a base in tick t is not executed because
\* base.crystal does not exceed the cost, and the mine count and the live unit
\* counts of the base are the same at tick t+1, then the action chosen for the base
\* at tick t+1 is the same action, in the stages and in the fallback rotation.
C11_SkippedBuildRetried ==
    [][\A c \in Range(trace.choices) : \A d \in ChoicesOf(trace', c.uid) :
          (Skipped(info, c) /\ c.mines = d.mines /\ c.counts = d.counts)
              => d.action = c.action]_vars

-----------------------------------------------------------------------------
(* C12 *)

\* Executing the chosen action: a base whose crystal is exactly the cost of a
\* tank, between the cost of a ship and that of a jet, or above them all.
ExecEnv ==
    [maxUnits |-> JetUnits, maxBases |-> 1, mines |-> {1, 3},
     crystal |-> {500, 2100, 4100},
     objs |-> {1}, loss |-> {}, baseLoss |-> FALSE,
     tankPos |-> {<<20, 0>>}, stopped |-> {FALSE}, shipPos |-> {<<500, 0>>},
     jetPos |-> {<<25, 0>>}, enemies |-> NoEnemies, omit |-> {TRUE}]

ExecNext == Run(ExecEnv)

SpecExec == Init /\ [][ExecNext]_vars

\* The role dictionary a build action registers the new uid in.
RoleField(action) ==
    CASE action = "build_tank_def" -> "tanks_def"
      [] action = "build_tank_att" -> "tanks_att"
      [] action = "build_ship" -> "ships"
      [] action = "build_jet" -> "jets_def"
      [] OTHER -> "none"

\* C12: executing a chosen action on a base invokes the matching engine build
\* operation if and only if base.crystal is strictly greater than the cost of the
\* item; with base.crystal at or below the cost nothing is built and every role set
\* and counter is unchanged; the uid a tank, ship or jet build returns is added to
\* the role set matching the action under the uid of that base, and to no other.
C12_ExecuteFrame ==
    \A c \in Range(trace.choices) : \A b \in BasesOf(info, c.uid) :
        LET item == ItemOf(c.action)
            rich == b.crystal > b.cost[item]
            f == RoleField(c.action)
        IN  /\ Len(c.built) = IF rich THEN 1 ELSE 0
            /\ rich => (c.built[1].item = item /\ c.built[1].base = c.uid)
            /\ ~rich => c.post = c.pre
            /\ (rich /\ item # "mine") =>
                   /\ c.built[1].uid \notin SetOf(c.pre[f], c.uid)
                   /\ \A g \in {"tanks_def", "tanks_att", "ships", "jets_def"} :
                          \A x \in DOMAIN c.pre[g] \cup DOMAIN c.post[g] :
                              SetOf(c.post[g], x) =
                                  IF g = f /\ x = c.uid
                                  THEN SetOf(c.pre[g], x) \cup {c.built[1].uid}
                                  ELSE SetOf(c.pre[g], x)

\* A base that has built defense tanks before has crystal 500, the cost of a
\* tank: the tank it chose to build is not built and nothing changes.
C12_Witness ==
    \E c \in Range(trace.choices) : \E b \in BasesOf(info, c.uid) :
        /\ ItemOf(c.action) = "tank" /\ b.crystal = b.cost["tank"]
        /\ Len(c.built) = 0 /\ c.post = c.pre
        /\ SetOf(c.pre.tanks_def, c.uid) # {}

-----------------------------------------------------------------------------
(* C13 *)

\* Enemy bases around: none, a team without bases, bases at 50, 30 and 80 from
\* the first own base, two bases at the same distance, two enemy teams, and a
\* base that is nearer to the second own base.
TargetEnemies ==
    { <<>>,
      <<Enemy(<<At(700, 0)>>, <<>>, <<>>)>>,
      <<Enemy(<<>>, <<>>, <<EnemyBase(1, 50, 0), EnemyBase(2, 0, 30), EnemyBase(3, 80, 0)>>)>>,
      <<Enemy(<<>>, <<>>, <<EnemyBase(1, 0, 30), EnemyBase(2, 30, 0)>>)>>,
      <<Enemy(<<>>, <<>>, <<EnemyBase(1, 0, 40)>>), Enemy(<<>>, <<>>, <<EnemyBase(2, 0, 30)>>)>>,
      <<Enemy(<<At(700, 0)>>, <<>>, <<>>), Enemy(<<>>, <<>>, <<EnemyBase(2, 900, 0), EnemyBase(3, 0, 300)>>)>> }

TargetEnv ==
    [maxUnits |-> MaxUnits, maxBases |-> MaxBases, mines |-> {2}, crystal |-> {2500},
     objs |-> {1}, loss |-> {}, baseLoss |-> TRUE,
     tankPos |-> {<<20, 0>>}, stopped |-> {FALSE}, shipPos |-> {<<500, 0>>},
     jetPos |-> {<<25, 0>>}, enemies |-> TargetEnemies, omit |-> {TRUE}]

TargetNext == Run(TargetEnv)

SpecTargets == Init /\ [][TargetNext]_vars

\* The bases of the other teams, in the iteration order of info: <<team, index>>.
EnemyBaseSlots ==
    {<<e, k>> \in (1..Len(info.enemies)) \X (1..3) :
        k <= Len(Get(info.enemies[e], "bases"))}

SlotBase(sl) == Get(info.enemies[sl[1]], "bases")[sl[2]]

SlotBefore(a, b) == a[1] < b[1] \/ (a[1] = b[1] /\ a[2] < b[2])

\* run() got as far as computing the target maps.
TargetsComputed == trace.errAt # "bases"

\* C13: get_target_per_base maps every own base of the snapshot to an enemy
\* base at minimal direct distance from it among all the bases of all other teams
\* (the first such base in iteration order on ties), and to None exactly when no
\* other team has a base; an own base is never a target.
C13_TargetPerBase ==
    TargetsComputed =>
        /\ DOMAIN trace.targets.per_base = OwnBases
        /\ \A b \in OwnBases :
               LET tg == trace.targets.per_base[b]
               IN  /\ tg = None <=> EnemyBaseSlots = {}
                   /\ tg # None =>
                          /\ tg[1].uid \notin OwnBases
                          /\ \E sl \in EnemyBaseSlots :
                                 /\ SlotBase(sl) = tg[1]
                                 /\ \A o \in EnemyBaseSlots :
                                        \/ Dist2(BasePos(b), SlotBase(o).pos)
                                               > Dist2(BasePos(b), tg[1].pos)
                                        \/ /\ Dist2(BasePos(b), SlotBase(o).pos)
                                                  = Dist2(BasePos(b), tg[1].pos)
                                           /\ ~SlotBefore(o, sl)

\* Two own bases with different targets: the first has the enemy base at 300, not
\* the one listed before it at 900; the second has the one at 900, at 100 from it.
C13_Witness ==
    /\ TargetsComputed
    /\ OwnBases = {BaseUid(1), BaseUid(2)}
    /\ trace.targets.per_base[BaseUid(1)] = Some(EnemyBase(3, 0, 300))
    /\ trace.targets.per_base[BaseUid(2)] = Some(EnemyBase(2, 900, 0))

-----------------------------------------------------------------------------
(* C14 *)

\* update_vehicles called on its own, with the roster of a snapshot the
\* environment allows, at most two units fewer than the last one: every other
\* attribute of the agent is what the call leaves.
UpdateVehicles(E) ==
    \E lost \in {l \in SUBSET world.alive : Cardinality(l) <= 2}, omit \in BOOLEAN :
        LET surv == world.alive \ lost
            i == MkInfo(world, world.bases, surv,
                        [b \in world.bases |-> 2], [b \in world.bases |-> 0],
                        [b \in world.bases |-> 1],
                        [u \in OfKind(world, "tank", surv) |-> <<20, 0>>],
                        [u \in OfKind(world, "tank", surv) |-> FALSE],
                        [u \in OfKind(world, "ship", surv) |-> <<500, 0>>],
                        [u \in OfKind(world, "jet", surv) |-> <<25, 0>>],
                        <<>>, omit)
        IN  \E s \in {update_vehicles(Self, i.own)} :
                /\ previous_positions' = s.previous_positions
                /\ ntanks_def' = s.ntanks_def
                /\ tanks_def' = s.tanks_def
                /\ ntanks_att' = s.ntanks_att
                /\ tanks_att' = s.tanks_att
                /\ nships' = s.nships
                /\ ships' = s.ships
                /\ njets' = s.njets
                /\ jets_def' = s.jets_def
                /\ bases_under_attack' = s.bases_under_attack
                /\ cycle_cache' = s.cycle_cache
                /\ world' = [world EXCEPT !.units = s.units]
                /\ info' = i
                /\ trace' = [op |-> "update_vehicles", built |-> s.built, cmds |-> s.cmds,
                             err |-> s.err, errAt |-> s.errAt, errUid |-> s.errUid,
                             choices |-> s.choices, targets |-> s.targets]

UpdateEnv ==
    [maxUnits |-> MaxUnits, maxBases |-> 1, mines |-> {2}, crystal |-> {2500},
     objs |-> {1}, loss |-> {}, baseLoss |-> FALSE,
     tankPos |-> {<<20, 0>>}, stopped |-> {FALSE}, shipPos |-> {<<500, 0>>},
     jetPos |-> {<<25, 0>>}, enemies |-> NoEnemies, omit |-> {TRUE}]

UpdateNext == Run(UpdateEnv) \/ UpdateVehicles(UpdateEnv)

SpecUpdate == Init /\ [][UpdateNext]_vars

\* The four role dictionaries, with the kind of roster each is reconciled with.
RoleDicts ==
    { [old |-> tanks_def, new |-> tanks_def', kind |-> "tanks"],
      [old |-> tanks_att, new |-> tanks_att', kind |-> "tanks"],
      [old |-> ships, new |-> ships', kind |-> "ships"],
      [old |-> jets_def, new |-> jets_def', kind |-> "jets"] }

\* A call of update_vehicles removes from the role sets the identifiers that are
\* not in the roster, and changes nothing else.
C14_OnlyRemovesAbsent ==
    /\ \A r \in RoleDicts :
           /\ DOMAIN r.new = DOMAIN r.old
           /\ \A b \in DOMAIN r.old : r.new[b] = r.old[b] \cap Uids(Get(info'.own, r.kind))
    /\ UNCHANGED <<ntanks_def, ntanks_att, nships, njets, previous_positions,
                   bases_under_attack, cycle_cache, world>>
    /\ trace'.built = <<>> /\ trace'.cmds = <<>> /\ trace'.err = "none"

\* A second call with the same roster changes no role set.
C14_SecondCallIsNoop ==
    (trace.op = "update_vehicles" /\ info' = info)
        => UNCHANGED <<tanks_def, tanks_att, ships, jets_def>>

\* C14: update_vehicles is idempotent: applying it twice with the same roster
\* leaves all role sets as applying it once does; and it changes nothing but the
\* role sets, from which it removes the identifiers absent from the roster
\* (counters, position cache and engine objects are untouched).
C14_UpdateIdempotent ==
    [][trace'.op = "update_vehicles" => (C14_OnlyRemovesAbsent /\ C14_SecondCallIsNoop)]_vars

\* update_vehicles has just removed a tank and a ship that the roster does not
\* list, while the counters still count them.
C14_Witness ==
    /\ trace.op = "update_vehicles"
    /\ \E b \in DOMAIN tanks_def \cap DOMAIN ships :
           /\ Cardinality(tanks_def[b]) < ntanks_def[b]
           /\ Cardinality(ships[b]) < nships[b]
           /\ tanks_def[b] # {}

-----------------------------------------------------------------------------
(* C15 *)

\* The commands the last run() call issued to unit uid, in the order of issue.
RECURSIVE CmdsTo(_, _, _)
CmdsTo(tr, uid, k) ==
    IF k > Len(tr.cmds) THEN <<>>
    ELSE (IF tr.cmds[k].uid = uid THEN <<tr.cmds[k]>> ELSE <<>>) \o CmdsTo(tr, uid, k + 1)

\* C15: for every own tank (defense or attack role) whose owning base is flagged
\* under attack in a tick, the last movement command issued to the tank in that
\* tick is goto(threat position of its owning base): no command issued later in
\* the same run() call supersedes the override.
C15_OverrideIsLast ==
    trace.err = "none" =>
        \A k \in 1..Len(Get(info.own, "tanks")) :
            LET tank == Get(info.own, "tanks")[k]
                issued == CmdsTo(trace, tank.uid, 1)
            IN  (tank.owner \in DOMAIN bases_under_attack
                    /\ bases_under_attack[tank.owner] # None)
                    => /\ Len(issued) > 0
                       /\ issued[Len(issued)]
                              = Cmd(tank.uid, "goto", bases_under_attack[tank.owner])

-----------------------------------------------------------------------------
(* C16 *)

\* The goto commands of the last run() call sent unit uid to one of the positions P.
SentTo(tr, uid, P) ==
    \E k \in 1..Len(tr.cmds) :
        tr.cmds[k].uid = uid /\ tr.cmds[k].op = "goto" /\ tr.cmds[k].arg \in P

\* C16: in every tick, every live own tank that is in the attack role set of its
\* owning base uid and has an individually assigned nearest enemy base is
\* commanded goto toward the assigned target of its base if there is one, else
\* toward its individual target, also in the ticks after its owning base has
\* been destroyed.
C16_AttackTanksAdvance ==
    [][trace'.err = "none" =>
        \A k \in 1..Len(Get(info'.own, "tanks")) :
            LET tank == Get(info'.own, "tanks")[k]
            IN  (tank.uid \in SetOf(tanks_att, tank.owner) /\ EnemyBasePositions' # {})
                    => IF tank.owner \in OwnBases'
                       THEN SentTo(trace', tank.uid,
                                   Nearest(BasePos(tank.owner), EnemyBasePositions'))
                       ELSE SentTo(trace', tank.uid,
                                   Nearest(tank.pos, EnemyBasePositions'))]_vars

-----------------------------------------------------------------------------
(* C17 *)

\* The jets again, and an enemy base that stands where a jet can be.
PriorityEnv ==
    [JetEnv EXCEPT !.enemies = JetEnemies \cup {<<Enemy(<<>>, <<>>, <<EnemyBase(1, 0, 20)>>)>>}]

PriorityNext == Run(PriorityEnv)

SpecPriority == Init /\ [][PriorityNext]_vars

\* The positions of the own bases of the snapshot at a distance strictly between
\* 100 and 110 from position p.
BandPositions(i, p) ==
    {b.pos : b \in {x \in Range(Get(i.own, "bases")) :
                       100 * 100 < Dist2(p, x.pos) /\ Dist2(p, x.pos) < 110 * 110}}

\* C17: for every own jet in every tick the commands issued come from exactly the
\* lowest-numbered applicable behaviour of the list: (1) owning base under attack:
\* goto threat; (2) enemy ship within 300 of the owning base: goto ship; (3) the
\* owning base has an enemy-base target: goto that target, whatever the distance
\* of the jet to it; (4) an own base strictly between 100 and 110 from the jet:
\* goto the nearest such base, and heading jitter; (5) position unchanged: random
\* heading.  (Stated for the run() calls that do not raise.)
C17_JetPriorities ==
    [][trace'.err = "none" =>
        \A k \in 1..Len(Get(info'.own, "jets")) :
            LET jet == Get(info'.own, "jets")[k]
                issued == CmdsTo(trace', jet.uid, 1)
                threat == bases_under_attack'[jet.owner]
                shps == Nearest(BasePos(jet.owner), EnemyShipPositions')
                targets == Nearest(BasePos(jet.owner), EnemyBasePositions')
                band == Nearest(jet.pos, BandPositions(info', jet.pos))
                still == /\ jet.uid \in DOMAIN previous_positions
                         /\ previous_positions[jet.uid] = jet.pos
            IN  IF threat # None
                THEN issued = <<Cmd(jet.uid, "goto", threat)>>
                ELSE IF \E q \in shps : Dist2(BasePos(jet.owner), q) < 300 * 300
                THEN Len(issued) = 1 /\ SentTo(trace', jet.uid, shps)
                ELSE IF targets # {}
                THEN Len(issued) = 1 /\ SentTo(trace', jet.uid, targets)
                ELSE IF band # {}
                THEN /\ Len(issued) = 2 /\ issued[1].op = "goto" /\ issued[1].arg \in band
                     /\ issued[2] = Cmd(jet.uid, "set_heading_jitter", <<jet.heading>>)
                ELSE IF still
                THEN issued = <<Cmd(jet.uid, "set_heading_random", <<>>)>>
                ELSE issued = <<>>]_vars

-----------------------------------------------------------------------------
(* C18 *)

\* One base that builds up to its first jet, and jets that are lost.
GuardEnv ==
    [JetEnv EXCEPT !.loss = {"jet", "ship"}, !.baseLoss = FALSE, !.enemies = NoEnemies,
                   !.jetPos = {<<25, 0>>}]

GuardNext == Run(GuardEnv)

SpecGuard == Init /\ [][GuardNext]_vars

\* The engine has built a jet for base b at some time.
JetEverBuilt(w, b) ==
    \E u \in 1..Len(w.units) : w.units[u].kind = "jet" /\ w.units[u].owner = b

\* The stages get_next_stage went through before it returned: all of them in the
\* fallback, else those up to the one it returned from.
StagesSeen(c) == 1..(IF c.stage = 0 THEN Len(stages) ELSE c.stage)

\* C18: a ships stage with threshold N is skipped for a base if and only if the
\* ship count of the base already meets N and no jet has yet been built for that
\* base: once a jet has been built for a base no ships stage is skipped for it
\* again, even if that jet is later destroyed.
C18_ShipsStageGuard ==
    [][\A c \in Range(trace'.choices) :
          \A j \in {x \in StagesSeen(c) : stages[x].item = "ships"} :
              j \in c.skipped <=> (c.nships >= stages[j].count /\ ~JetEverBuilt(world, c.uid))]_vars

-----------------------------------------------------------------------------
(* C19 *)

\* C19: after every run() call, for every tracked base uid, each counter equals
\* the size of the corresponding role set: ntanks_def = |tanks_def|, ntanks_att =
\* |tanks_att|, nships = |ships| and njets = |jets_def|.
C19_CountersMirrorSets ==
    /\ \A b \in DOMAIN ntanks_def : ntanks_def[b] = Cardinality(SetOf(tanks_def, b))
    /\ \A b \in DOMAIN ntanks_att : ntanks_att[b] = Cardinality(SetOf(tanks_att, b))
    /\ \A b \in DOMAIN nships : nships[b] = Cardinality(SetOf(ships, b))
    /\ \A b \in DOMAIN njets : njets[b] = Cardinality(SetOf(jets_def, b))

-----------------------------------------------------------------------------
(* C20 *)

\* C20: after every run() call the position cache previous_positions has an
\* entry only for units of that tick's live own roster: the entry of a unit is
\* removed in the first tick in which the unit is absent from the roster.
C20_CacheHoldsLiveUnits ==
    DOMAIN previous_positions \subseteq Roster("tanks") \cup Roster("ships") \cup Roster("jets")

-----------------------------------------------------------------------------
(* C21 *)

\* The progression of one base up to the last stage, with jets that can be lost.
ShadowEnv ==
    [RotationEnv EXCEPT !.objs = {1}, !.loss = {"jet"}, !.maxUnits = ShadowUnits]

ShadowNext == Run(ShadowEnv)

SpecShadow == Init /\ [][ShadowNext]_vars

\* C21: get_next_stage never returns from the stage entries at list positions 8
\* (ships, 2, build_jet), 11 (ships, 2, build_ship) and 15 (jets, 1, build_jet),
\* counting from 0: the ships stage bound to build_jet never causes a jet to be
\* built, and every staged ship build comes from positions 2, 5 or 13.
C21_ShadowedStages ==
    \A c \in Range(trace.choices) :
        /\ c.stage \notin {8 + 1, 11 + 1, 15 + 1}
        /\ (c.stage > 0 /\ c.action = "build_ship") => c.stage \in {2 + 1, 5 + 1, 13 + 1}
        /\ (c.stage > 0 /\ c.action = "build_jet") => stages[c.stage].item = "jets"

\* get_next_stage went through the three entries and returned from the last
\* stage of the list, build_tank_att.
C21_Witness ==
    \E c \in Range(trace.choices) : c.stage = 16 + 1 /\ c.action = "build_tank_att"

-----------------------------------------------------------------------------
(* C22 *)

\* Up to three own bases, ships that become bases, and no unit or base ever
\* destroyed.
ProgressEnv ==
    [maxUnits |-> ProgressUnits, maxBases |-> 3, mines |-> {3}, crystal |-> {5000},
     objs |-> {1}, loss |-> {}, baseLoss |-> FALSE,
     tankPos |-> {<<20, 0>>}, stopped |-> {FALSE}, shipPos |-> {<<500, 0>>},
     jetPos |-> {<<25, 0>>}, enemies |-> NoEnemies, omit |-> {TRUE}]

ProgressNext == Run(ProgressEnv)

SpecProgress == Init /\ [][ProgressNext]_vars

\* None of the units the engine built for base b has been lost: none destroyed,
\* no ship converted.
NothingLost(w, b) ==
    \A u \in 1..Len(w.units) : w.units[u].owner = b => u \in w.alive

Short(n, threshold) == IF n < threshold THEN threshold - n ELSE 0

\* How far the role sets of base b are from the highest thresholds of the stages:
\* 10 defense tanks, 5 attack tanks, 3 ships, 2 jets.
Deficit(td, ta, sh, jd, b) ==
    Short(Cardinality(SetOf(td, b)), 10) + Short(Cardinality(SetOf(ta, b)), 5)
        + Short(Cardinality(SetOf(sh, b)), 3) + Short(Cardinality(SetOf(jd, b)), 2)

\* C22: for a base that has crystal strictly above the cost of the chosen item
\* and whose built units are never lost, the staged progression terminates:
\* every tick in which a staged unit is chosen for the base brings its role sets
\* nearer to the thresholds, so that after finitely many ticks every threshold is
\* satisfied and get_next_stage takes the fallback rotation.
C22_StagedProgressionTerminates ==
    [][\A c \in Range(trace'.choices) :
          (/\ c.stage > 0 /\ ItemOf(c.action) # "mine"
           /\ ~Skipped(info', c)
           /\ NothingLost(world', c.uid))
              => Deficit(tanks_def', tanks_att', ships', jets_def', c.uid)
                     < Deficit(tanks_def, tanks_att, ships, jets_def, c.uid)]_vars

====
